---- MODULE Spec2Model ----
(***************************************************************************)
(* Model of app.py, the "Foreign Text Normaliser": one script run per      *)
(* upload.  The script reads the uploaded file into a table, validates the *)
(* header of column A, cleans column A with clean_text_series, and builds  *)
(* out_df with the result inserted as column "Cleaned" at position 1.      *)
(*                                                                         *)
(* Text is modelled as a sequence of characters.  An ASCII character is    *)
(* the one-character string itself; a non-ASCII character is named by its  *)
(* code point ("U+00E9" is e-acute).                                       *)
(***************************************************************************)
EXTENDS Integers, Sequences, FiniteSets, TLC

\* Bounds of the enumerated uploads.
MaxLen == 3
MaxCols == 3
MaxRows == 2

----------------------------------------------------------------------------
\* Characters

Upper == {"A", "B", "C", "D", "E", "F", "G", "H", "I", "J", "K", "L", "M",
          "N", "O", "P", "Q", "R", "S", "T", "U", "V", "W", "X", "Y", "Z"}
Lower == {"a", "b", "c", "d", "e", "f", "g", "h", "i", "j", "k", "l", "m",
          "n", "o", "p", "q", "r", "s", "t", "u", "v", "w", "x", "y", "z"}
Digits == {"0", "1", "2", "3", "4", "5", "6", "7", "8", "9"}

\* The character class [A-Za-z0-9 ] of line 57.
KeepClass == Upper \cup Lower \cup Digits \cup {" "}

\* The characters \s matches (and str.strip removes).
Whitespace == {" ", "\t", "\n", "\r"}

\* unidecode's table, for the non-ASCII characters the model uses; ASCII
\* characters are returned as they are.
unidecode_char(c) ==
    CASE c = "U+00E9" -> <<"e">>                           \* e acute
      [] c = "U+00E0" -> <<"a">>                           \* a grave
      [] c = "U+00E7" -> <<"c">>                           \* c cedilla
      [] c = "U+00EF" -> <<"i">>                           \* i diaeresis
      [] c = "U+00FC" -> <<"u">>                           \* u diaeresis
      [] c = "U+00F6" -> <<"o">>                           \* o diaeresis
      [] c = "U+00DF" -> <<"s", "s">>                      \* sharp s
      [] c = "U+2019" -> <<"'">>                           \* right quote
      [] c = "U+00A0" -> <<" ">>                           \* no-break space
      [] c = "U+4E2D" -> <<"Z", "h", "o", "n", "g", " ">>  \* CJK "middle"
      [] OTHER -> <<c>>

RECURSIVE unidecode(_)
unidecode(s) ==
    IF s = <<>> THEN <<>>
    ELSE unidecode_char(Head(s)) \o unidecode(Tail(s))

\* out.str.replace("'", "", regex=False)
remove_apostrophes(s) == SelectSeq(s, LAMBDA c : c # "'")

\* A bug that turns the removed characters into spaces instead.
RECURSIVE remove_non_alnum_spaced(_)
remove_non_alnum_spaced(s) ==
    IF s = <<>> THEN <<>>
    ELSE (IF Head(s) \in KeepClass THEN <<Head(s)>> ELSE <<" ">>)
             \o remove_non_alnum_spaced(Tail(s))

\* out.str.replace(r"[^A-Za-z0-9 ]+", "", regex=True)
remove_non_alnum(s) == SelectSeq(s, LAMBDA c : c \in KeepClass)

\* out.str.replace(r"\s+", " ", regex=True): every maximal run of
\* whitespace becomes one space.
RECURSIVE collapse_whitespace(_)
collapse_whitespace(s) ==
    IF s = <<>> THEN <<>>
    ELSE IF Head(s) \in Whitespace
         THEN IF Len(s) > 1 /\ s[2] \in Whitespace
              THEN collapse_whitespace(Tail(s))
              ELSE <<" ">> \o collapse_whitespace(Tail(s))
         ELSE <<Head(s)>> \o collapse_whitespace(Tail(s))

RECURSIVE lstrip(_)
lstrip(s) ==
    IF s # <<>> /\ Head(s) \in Whitespace THEN lstrip(Tail(s)) ELSE s

RECURSIVE rstrip(_)
rstrip(s) ==
    IF s # <<>> /\ s[Len(s)] \in Whitespace
    THEN rstrip(SubSeq(s, 1, Len(s) - 1))
    ELSE s

\* A bug that strips the left end only.
strip_left_only(s) == lstrip(s)

\* .str.strip()
strip(s) == rstrip(lstrip(s))

\* A bug that normalises the spaces before the other characters are
\* removed (lines 57 and 58 exchanged).
clean_text_spaces_first(s) ==
    remove_non_alnum(strip(collapse_whitespace(remove_apostrophes(unidecode(s)))))

\* Lines 55-58 applied to one string of the series.
clean_text(s) ==
    strip(collapse_whitespace(remove_non_alnum(remove_apostrophes(unidecode(s)))))

----------------------------------------------------------------------------
\* Cells and tables

\* A cell is text, a number (kept with its str() form) or blank (NaN).
TextCell(s) == [kind |-> "Text", text |-> s]
NumberCell(s) == [kind |-> "Number", text |-> s]
BlankCell == [kind |-> "Blank", text |-> <<>>]

\* str() of one cell, as s.astype(str) gives it on a build that turns NaN
\* into the text "nan".
astype_str(cell) ==
    IF cell.kind = "Blank" THEN <<"n", "a", "n">> ELSE cell.text

\* On a build whose str dtype keeps NaN missing, unidecode is handed a float
\* and raises: the series cannot be cleaned.
MayRaise(cells) == \E i \in 1..Len(cells) : cells[i].kind = "Blank"

\* A bug that returns the cleaned values in reverse row order.
clean_text_series_reversed(cells) ==
    [i \in 1..Len(cells) |-> clean_text(astype_str(cells[Len(cells) + 1 - i]))]

\* clean_text_series: the cleaned string of every row, in row order.
clean_text_series(cells) ==
    [i \in 1..Len(cells) |-> clean_text(astype_str(cells[i]))]

\* A table: the columns in order (name and cells) and the length of the index.
NoTable == [cols |-> <<>>, nrows |-> -1]

Column(name, cells) == [name |-> name, cells |-> cells]

columns(t) == [i \in 1..Len(t.cols) |-> t.cols[i].name]

HasColumn(t, name) == \E i \in 1..Len(t.cols) : t.cols[i].name = name

\* DataFrame.drop(columns=[name])
drop(t, name) == [t EXCEPT !.cols = SelectSeq(t.cols, LAMBDA c : c.name # name)]

\* DataFrame.insert(loc, name, values) with a 0-based loc; pandas raises
\* IndexError unless 0 <= loc <= number of columns, and ValueError when the
\* name is already a column.
CanInsert(t, loc, name) ==
    0 <= loc /\ loc <= Len(t.cols) /\ ~HasColumn(t, name)

\* A bug that appends the column (out_df["Cleaned"] = cleaned).
insert_at_end(t, loc, name, values) ==
    [t EXCEPT !.cols = Append(t.cols,
                          Column(name, [i \in 1..Len(values) |-> TextCell(values[i])]))]

insert(t, loc, name, values) ==
    [t EXCEPT !.cols = SubSeq(t.cols, 1, loc)
                         \o <<Column(name, [i \in 1..Len(values) |-> TextCell(values[i])])>>
                         \o SubSeq(t.cols, loc + 1, Len(t.cols))]

\* DataFrame.head(n)
head(t, n) ==
    LET k == IF t.nrows < n THEN t.nrows ELSE n
    IN  [cols |-> [i \in 1..Len(t.cols) |->
                      Column(t.cols[i].name, SubSeq(t.cols[i].cells, 1, k))],
         nrows |-> k]

\* The name of the output column and the position it is inserted at.
CleanedName == <<"C", "l", "e", "a", "n", "e", "d">>

InsertLoc == 1

PreviewRows == 20

\* str(first_col).startswith("Unnamed")
UnnamedPrefix == <<"U", "n", "n", "a", "m", "e", "d">>

startswith(s, p) == Len(s) >= Len(p) /\ SubSeq(s, 1, Len(p)) = p

\* The test of line 85.
HeaderRejected(name) == startswith(name, UnnamedPrefix) \/ strip(name) = <<>>

----------------------------------------------------------------------------
\* The uploads the model enumerates

\* The example rows of the template (template_df).
TemplateRow1 == <<"q", "u", "'", "e", "s", "t", "-", "c", "e", " ", "q", "u", "'", "u", "n", "e", " ", "s", "o", "u", "r", "i", "s", " ", "e", "r", "g", "o", "n", "o", "m", "i", "q", "u", "e">>
TemplateRow2 == <<"s", "o", "u", "r", "i", "s", " ", "e", "r", "g", "o", "n", "o", "m", "i", "q", "u", "e", " ", "r", "U+00E9", "g", "l", "a", "b", "l", "e", " ", "U+00E0", " ", "m", "a", "i", "n">>
TemplateRow3 == <<"f", "a", "U+00E7", "a", "d", "e", " ", "n", "a", "U+00EF", "v", "e", " ", "d", "U+00E9", "j", "U+00E0", " ", "v", "u", " ", "c", "a", "f", "U+00E9">>
TemplateRow4 == <<"U+00FC", "b", "e", "r", " ", "s", "c", "h", "U+00F6", "n", " ", "g", "r", "o", "U+00DF", " ", "S", "t", "r", "a", "U+00DF", "e">>

\* Cell values of column A in the uploads with several rows or columns.
SampleCells ==
    { TextCell(TemplateRow1),
      TextCell(<<" ", "a", " ", "-", " ", "b", "U+4E2D">>),
      NumberCell(<<"3", ".", "5">>),
      BlankCell }

\* Headers: real ones, the output column's name, the placeholder pandas
\* gives a headerless column A, a blank one, and one that begins "Unnamed".
Headers ==
    { <<"K", "e", "y", "w", "o", "r", "d", "s">>,
      CleanedName,
      <<"U", "n", "n", "a", "m", "e", "d", ":", " ", "0">>,
      <<" ", " ">>,
      <<"U", "n", "n", "a", "m", "e", "d", " ", "n", "o", "t", "e", "s">> }

\* Header rows: column names are unique within a table.
HeaderRows ==
    UNION { { h \in [1..n -> Headers] :
                \A i, j \in 1..n : i # j => h[i] # h[j] } : n \in 0..MaxCols }

\* The digit of a row number.
RowDigit(r) == <<"0", "1", "2", "3", "4", "5", "6", "7", "8", "9">>[(r % 10) + 1]

\* The value of a column other than column A in row r: text that no cleaned
\* value can equal.
OtherCell(name, r) == TextCell(name \o <<"!", "r">> \o <<RowDigit(r)>>)

MakeTable(h, first) ==
    [cols |-> [i \in 1..Len(h) |->
                  Column(h[i], IF i = 1 THEN first
                               ELSE [r \in 1..Len(first) |-> OtherCell(h[i], r)])],
     nrows |-> Len(first)]

\* The cells of column A: up to MaxRows rows.
FirstColumns == UNION { [1..n -> SampleCells] : n \in 0..MaxRows }

\* Characters of the enumerated strings: letters, a digit, whitespace, an
\* apostrophe, punctuation and non-ASCII characters.
Alphabet == {"a", "7", " ", "\t", "'", "-", "U+00E9", "U+00DF", "U+4E2D"}

Strings == UNION { [1..n -> Alphabet] : n \in 0..MaxLen }

\* The template itself, as downloaded.
TemplateTable ==
    MakeTable(<< <<"K", "e", "y", "w", "o", "r", "d", "s">> >>,
              <<TextCell(TemplateRow1), TextCell(TemplateRow2),
                TextCell(TemplateRow3), TextCell(TemplateRow4)>>)

\* An upload: the extension of its name, the format its bytes really have,
\* and the table they hold.
NoFile == [ext |-> "", format |-> "", table |-> NoTable]

Upload(ext, format, table) == [ext |-> ext, format |-> format, table |-> table]

\* pd.read_csv parses CSV bytes and raises on anything else, and on a file
\* without columns (EmptyDataError).
read_csv_ok(upload) == upload.format = "csv" /\ Len(upload.table.cols) > 0

\* pd.read_excel parses a workbook and raises on anything else.
read_excel_ok(upload) == upload.format = "xlsx"

\* read_any: the parser is chosen by the extension of the name.
read_any_ok(upload) ==
    IF upload.ext = "csv" THEN read_csv_ok(upload) ELSE read_excel_ok(upload)

read_any(upload) == upload.table

----------------------------------------------------------------------------
\* The script

VARIABLES
    pc,         \* position of the script run
    uploaded,   \* what st.file_uploader returned
    df,         \* the table that was read
    first_col,  \* df.columns[0]
    cleaned,    \* the series clean_text_series returned
    out_df,     \* the output table
    reported,   \* the st.info / st.error / st.success messages, in order
    preview,    \* the table shown by st.dataframe
    downloads   \* the artifacts handed to the download buttons

vars == <<pc, uploaded, df, first_col, cleaned, out_df, reported, preview, downloads>>

Init ==
    /\ pc = "uploader"
    /\ \/ uploaded = NoFile
       \* a table of up to MaxCols columns and MaxRows rows (one without
       \* columns has no rows), as CSV or as a workbook
       \/ \E e \in {"csv", "xlsx"}, h \in HeaderRows, first \in FirstColumns :
             /\ Len(h) = 0 => Len(first) = 0
             /\ uploaded = Upload(e, e, MakeTable(h, first))
       \* one cell under the template's header, one upload per string
       \/ \E s \in Strings :
             uploaded = Upload("csv", "csv",
                               MakeTable(<< <<"K", "e", "y", "w", "o", "r", "d", "s">> >>,
                                         <<TextCell(s)>>))
       \* the template itself
       \/ uploaded = Upload("xlsx", "xlsx", TemplateTable)
       \* bytes that are not what the extension says
       \/ \E e \in {"csv", "xlsx"}, f \in {"csv", "xlsx", "garbage"} :
             /\ e # f
             /\ uploaded = Upload(e, f, NoTable)
    /\ df = NoTable
    /\ first_col = <<>>
    /\ cleaned = <<>>
    /\ out_df = NoTable
    /\ reported = <<>>
    /\ preview = NoTable
    /\ downloads = {}

\* Lines 68-70: nothing uploaded.
NoUpload ==
    /\ pc = "uploader"
    /\ uploaded = NoFile
    /\ reported' = Append(reported, "info: upload a file")
    /\ pc' = "stopped"
    /\ UNCHANGED <<uploaded, df, first_col, cleaned, out_df, preview, downloads>>

\* Lines 72-73: the file is read.
ReadOk ==
    /\ pc = "uploader"
    /\ uploaded # NoFile
    /\ read_any_ok(uploaded)
    /\ df' = read_any(uploaded)
    /\ pc' = "validate"
    /\ UNCHANGED <<uploaded, first_col, cleaned, out_df, reported, preview, downloads>>

\* Lines 74-78: read_any raised.
ReadFailed ==
    /\ pc = "uploader"
    /\ uploaded # NoFile
    /\ ~read_any_ok(uploaded)
    /\ reported' = Append(reported, "error: read")
    /\ pc' = "stopped"
    /\ UNCHANGED <<uploaded, df, first_col, cleaned, out_df, preview, downloads>>

\* Lines 80-82.
EmptyTable ==
    /\ pc = "validate"
    /\ Len(df.cols) = 0
    /\ reported' = Append(reported, "error: no columns")
    /\ pc' = "stopped"
    /\ UNCHANGED <<uploaded, df, first_col, cleaned, out_df, preview, downloads>>

\* Lines 84-87.
MissingHeader ==
    /\ pc = "validate"
    /\ Len(df.cols) # 0
    /\ HeaderRejected(df.cols[1].name)
    /\ first_col' = df.cols[1].name
    /\ reported' = Append(reported, "error: missing header")
    /\ pc' = "stopped"
    /\ UNCHANGED <<uploaded, df, cleaned, out_df, preview, downloads>>

\* Lines 84-89.
HeaderOk ==
    /\ pc = "validate"
    /\ Len(df.cols) # 0
    /\ ~HeaderRejected(df.cols[1].name)
    /\ first_col' = df.cols[1].name
    /\ reported' = Append(reported, "success: header detected")
    /\ pc' = "clean"
    /\ UNCHANGED <<uploaded, df, cleaned, out_df, preview, downloads>>

\* Lines 92-93.
CleanOk ==
    /\ pc = "clean"
    /\ cleaned' = clean_text_series(df.cols[1].cells)
    /\ pc' = "assemble"
    /\ UNCHANGED <<uploaded, df, first_col, out_df, reported, preview, downloads>>

\* Lines 94-98: clean_text_series raised.
CleanFailed ==
    /\ pc = "clean"
    /\ MayRaise(df.cols[1].cells)
    /\ reported' = Append(reported, "error: cleaning")
    /\ pc' = "stopped"
    /\ UNCHANGED <<uploaded, df, first_col, cleaned, out_df, preview, downloads>>

\* Lines 100-103.
AssembleOk ==
    /\ pc = "assemble"
    /\ LET copy == df
           dropped == IF HasColumn(copy, CleanedName) THEN drop(copy, CleanedName) ELSE copy
       IN  /\ CanInsert(dropped, InsertLoc, CleanedName)
           /\ out_df' = insert(dropped, InsertLoc, CleanedName, cleaned)
    /\ pc' = "preview"
    /\ UNCHANGED <<uploaded, df, first_col, cleaned, reported, preview, downloads>>

\* Lines 100-103 when insert raises IndexError: no handler, the run dies
\* with out_df left as the copy without its "Cleaned" column.
AssembleCrash ==
    /\ pc = "assemble"
    /\ LET copy == df
           dropped == IF HasColumn(copy, CleanedName) THEN drop(copy, CleanedName) ELSE copy
       IN  /\ ~CanInsert(dropped, InsertLoc, CleanedName)
           /\ out_df' = dropped
    /\ pc' = "crashed"
    /\ UNCHANGED <<uploaded, df, first_col, cleaned, reported, preview, downloads>>

\* Lines 106-107.
Preview ==
    /\ pc = "preview"
    /\ preview' = head(out_df, PreviewRows)
    /\ pc' = "write"
    /\ UNCHANGED <<uploaded, df, first_col, cleaned, out_df, reported, downloads>>

\* Lines 110-128: out_df is handed to the Excel and the CSV writer.
Download ==
    /\ pc = "write"
    /\ downloads' = { [file |-> "cleaned.xlsx", table |-> out_df],
                      [file |-> "cleaned.csv", table |-> out_df] }
    /\ pc' = "done"
    /\ UNCHANGED <<uploaded, df, first_col, cleaned, out_df, reported, preview>>

Next ==
    \/ NoUpload
    \/ ReadOk
    \/ ReadFailed
    \/ EmptyTable
    \/ MissingHeader
    \/ HeaderOk
    \/ CleanOk
    \/ CleanFailed
    \/ AssembleOk
    \/ AssembleCrash
    \/ Preview
    \/ Download

Spec == Init /\ [][Next]_vars

----------------------------------------------------------------------------
\* Properties

AfterClean == pc \in {"assemble", "preview", "write", "done", "crashed"}

Produced == pc \in {"preview", "write", "done"}

Terminated == pc \in {"stopped", "done", "crashed"}

InputCells == df.cols[1].cells

NewColumn == Column(CleanedName, [i \in 1..Len(cleaned) |-> TextCell(cleaned[i])])

NotCleaned(t) == SelectSeq(t.cols, LAMBDA c : c.name # CleanedName)

WellFormed(s) ==
    /\ \A i \in 1..Len(s) : s[i] \in KeepClass
    /\ s # <<>> => s[1] # " " /\ s[Len(s)] # " "
    /\ \A i \in 1..(Len(s) - 1) : ~(s[i] = " " /\ s[i + 1] = " ")

\* C1: every value clean_text_series produces contains only characters of
\* [A-Za-z0-9 ], has no leading or trailing space and no run of two or more
\* spaces.
C1_CleanedIsWellFormed ==
    AfterClean => \A i \in 1..Len(cleaned) : WellFormed(cleaned[i])

\* A row with a leading space, a removed hyphen between two spaces and a
\* transliteration that ends in a space has been cleaned.
C1_Witness ==
    /\ pc = "assemble"
    /\ \E i \in 1..Len(cleaned) :
          /\ InputCells[i] = TextCell(<<" ", "a", " ", "-", " ", "b", "U+4E2D">>)
          /\ cleaned[i] = <<"a", " ", "b", "Z", "h", "o", "n", "g">>

\* C2: cleaning is idempotent: cleaning a cleaned value gives the value back.
C2_Idempotent ==
    AfterClean => \A i \in 1..Len(cleaned) : clean_text(cleaned[i]) = cleaned[i]

\* The rows of the template have been cleaned, and cleaning changed them.
C2_Witness ==
    /\ pc = "assemble"
    /\ df = TemplateTable
    /\ cleaned[3] = <<"f", "a", "c", "a", "d", "e", " ", "n", "a", "i", "v", "e", " ",
                      "d", "e", "j", "a", " ", "v", "u", " ", "c", "a", "f", "e">>
    /\ \E i \in 1..Len(cleaned) :
          /\ InputCells[i] = TextCell(TemplateRow4)
          /\ cleaned[i] # TemplateRow4
          /\ cleaned[i] = <<"u", "b", "e", "r", " ", "s", "c", "h", "o", "n", " ",
                            "g", "r", "o", "s", "s", " ", "S", "t", "r", "a", "s", "s", "e">>

\* C3 as stated: the cell "qu'est-ce qu'une souris ergonomique" is cleaned to
\* "quest ce quune souris ergonomique", the hyphen leaving a space.
C3_Original ==
    AfterClean =>
        \A i \in 1..Len(cleaned) :
            InputCells[i] = TextCell(TemplateRow1) =>
                cleaned[i] = <<"q", "u", "e", "s", "t", " ", "c", "e", " ", "q", "u", "u", "n", "e", " ", "s", "o", "u", "r", "i", "s", " ", "e", "r", "g", "o", "n", "o", "m", "i", "q", "u", "e">>

\* C3 amended: the cell "qu'est-ce qu'une souris ergonomique" is cleaned to
\* "questce quune souris ergonomique": the apostrophes and the hyphen are
\* deleted, so the words on either side of the hyphen are joined.
C3_Amended ==
    AfterClean =>
        \A i \in 1..Len(cleaned) :
            InputCells[i] = TextCell(TemplateRow1) =>
                cleaned[i] = <<"q", "u", "e", "s", "t", "c", "e", " ", "q", "u", "u", "n", "e", " ", "s", "o", "u", "r", "i", "s", " ", "e", "r", "g", "o", "n", "o", "m", "i", "q", "u", "e">>

\* The first template row has been cleaned.
C3_Witness ==
    /\ pc = "assemble"
    /\ \E i \in 1..Len(cleaned) : InputCells[i] = TextCell(TemplateRow1)

\* C4 as stated: a table with at least one column and a valid header of
\* column A, whose cells can be cleaned, ends with an output table of
\* len(T.columns) + (0 if "Cleaned" is a column of T else 1) columns.
C4_Claim ==
    pc \in {"done", "crashed"} =>
        /\ pc = "done"
        /\ Len(out_df.cols)
             = Len(df.cols) + (IF HasColumn(df, CleanedName) THEN 0 ELSE 1)

\* C5 as stated: in every output table "Cleaned" is at position index 1 and
\* the column at position index 0 is the input column.
C5_Claim ==
    Produced =>
        /\ out_df.cols[2].name = CleanedName
        /\ out_df.cols[1] = df.cols[1]

\* C6 as stated, for the uploads whose "Cleaned" column is not column A
\* itself: a "Cleaned" column at position p of the upload is replaced in
\* place: the output has one "Cleaned" column, with the new values, at p.
C6_Original ==
    Produced =>
        \A p \in 2..Len(df.cols) :
            df.cols[p].name = CleanedName =>
                /\ Cardinality({j \in 1..Len(out_df.cols) :
                                    out_df.cols[j].name = CleanedName}) = 1
                /\ p <= Len(out_df.cols)
                /\ out_df.cols[p] = NewColumn

\* C6 amended: when the upload has a "Cleaned" column at any position p,
\* every output table has exactly one column named "Cleaned", it holds the
\* newly cleaned values, and it sits at position index 1 (the old column is
\* dropped, so the position is kept only when p = 1).
C6_Amended ==
    Produced /\ HasColumn(df, CleanedName) =>
        /\ Cardinality({j \in 1..Len(out_df.cols) :
                            out_df.cols[j].name = CleanedName}) = 1
        /\ Len(out_df.cols) >= 2
        /\ out_df.cols[2] = NewColumn

\* An upload whose third column is "Cleaned" has been processed.
C6_Witness ==
    /\ pc = "done"
    /\ Len(df.cols) = 3
    /\ df.cols[3].name = CleanedName
    /\ df.nrows > 0

\* The placeholder pandas gives a column without a header: "Unnamed: " and
\* the position of the column.
IsAutoPlaceholder(name) ==
    LET p == <<"U", "n", "n", "a", "m", "e", "d", ":", " ">>
    IN  /\ startswith(name, p)
        /\ Len(name) > Len(p)
        /\ \A i \in (Len(p) + 1)..Len(name) : name[i] \in Digits

IsBlank(name) == \A i \in 1..Len(name) : name[i] \in Whitespace

\* C7 as stated: validation fails with the empty-table error on a table
\* without columns, with the missing-header error when the name of column A
\* is blank or an auto-generated placeholder, and accepts every other header
\* as the input column.
C7_Claim ==
    (df # NoTable /\ pc # "validate") =>
        IF Len(df.cols) = 0
        THEN pc = "stopped" /\ reported = <<"error: no columns">>
        ELSE IF IsBlank(df.cols[1].name) \/ IsAutoPlaceholder(df.cols[1].name)
             THEN pc = "stopped" /\ reported = <<"error: missing header">>
             ELSE /\ first_col = df.cols[1].name
                  /\ reported[1] = "success: header detected"

Errors == {"error: read", "error: no columns", "error: missing header", "error: cleaning"}

ErrorsReported == SelectSeq(reported, LAMBDA m : m \in Errors)

\* C8 as stated: a run on an upload ends in success or in exactly one
\* reported error; a failed run has reported its error and has produced no
\* output table, preview or download, and a validation failure comes before
\* any cleaning.
C8_Claim ==
    (Terminated /\ uploaded # NoFile) =>
        \/ /\ pc = "done"
           /\ ErrorsReported = <<>>
        \/ /\ pc = "stopped"
           /\ Len(ErrorsReported) = 1
           /\ out_df = NoTable
           /\ preview = NoTable
           /\ downloads = {}
           /\ ErrorsReported[1] # "error: cleaning" => cleaned = <<>>

\* C9: the output table has the rows of the input table in the same order,
\* and the "Cleaned" value of row i is the cleaned form of the value of the
\* input column in row i.
C9_RowsPreserved ==
    Produced =>
        /\ out_df.nrows = df.nrows
        /\ \A j \in 1..Len(out_df.cols) :
              /\ Len(out_df.cols[j].cells) = df.nrows
              /\ IF out_df.cols[j].name = CleanedName
                 THEN \A i \in 1..df.nrows :
                         out_df.cols[j].cells[i]
                           = TextCell(clean_text(astype_str(InputCells[i])))
                 ELSE \E k \in 1..Len(df.cols) : df.cols[k] = out_df.cols[j]

\* A table of two rows whose cleaned values differ has been processed.
C9_Witness ==
    /\ pc = "done"
    /\ df.nrows = 2
    /\ Len(df.cols) >= 2
    /\ out_df.cols[2].cells[1] # out_df.cols[2].cells[2]

\* C10 as stated: the table handed to the writers holds every original
\* column other than a replaced "Cleaned" one, in order and unchanged, the
\* input column included, and the table that was read is not mutated.
C10_Claim ==
    pc = "done" =>
        /\ df = read_any(uploaded)
        /\ \A d \in downloads :
              /\ NotCleaned(d.table) = NotCleaned(df)
              /\ \E j \in 1..Len(d.table.cols) : d.table.cols[j] = df.cols[1]

====
